---- MODULE Spec2Model ----
(***************************************************************************)
(* A model of rust/template/src/d3main.rs: the D3 evaluator (eval,         *)
(* localize and the conversions they use) over the transactional engine    *)
(* handle HDDlog, and the start-up routine start_d3log with its file       *)
(* ingestion (read_json_file).                                             *)
(***************************************************************************)
EXTENDS Integers, Sequences, FiniteSets, TLC

\* ------------------------------------------------------------------ bounds
MaxBatchLen == 2      \* entries of an input batch (sequential caller)
NumThreads == 2       \* threads calling eval concurrently
MaxFileLen == 6       \* characters held by the ingestion file
MaxClock == 1         \* largest reading of the system clock
MaxErrors == 1        \* error reports sent in one run

\* ------------------------------------------------- schema (crate::Relations)
RelNames == {"R", "S"}
AllNames == RelNames \cup {"X"}
RelIds == {0, 1}
RelIdOf(s) == IF s = "R" THEN 0 ELSE 1
NameOf(id) == IF id = 0 THEN "R" ELSE "S"
Records == {"a", "b"}
DDValues == {1, 2}
Nodes == {7, 9}
Threads == 1..NumThreads

\* Relation R holds both shapes, relation S only the shape "a".
RecordFits(id, r) == (id = 0 /\ r \in {"a", "b"}) \/ (id = 1 /\ r = "a")
ValueOfRecord(r) == IF r = "a" THEN 1 ELSE 2
Pairs == {p \in RelIds \X DDValues : p[1] = 0 \/ p[2] = 1}

Ok(v) == [ok |-> TRUE, val |-> v, err |-> ""]
Err(msg) == [ok |-> FALSE, val |-> 0, err |-> msg]

\* crate::relval_from_record: the generated per-relation record parser.
relval_from_record(rel, r) ==
  IF RecordFits(rel, r) THEN Ok(ValueOfRecord(r)) ELSE Err("conversion")

\* ------------------------------------------------ D3 conversions and lookups
id_from_relation_name(s) ==
  IF s \in RelNames THEN Ok(RelIdOf(s)) ELSE Err("bad relation")

\* A conversion that falls back to a default value instead of failing.
ddvalue_from_record_lax(name, r) ==
  LET id == id_from_relation_name(name)
  IN IF ~id.ok THEN Ok(1)
     ELSE LET x == relval_from_record(id.val, r)
          IN IF x.ok THEN x ELSE Ok(1)

ddvalue_from_record(name, r) ==
  LET id == id_from_relation_name(name)
  IN IF ~id.ok THEN id
     ELSE LET x == relval_from_record(id.val, r)
          IN IF x.ok THEN x ELSE Err("bad record conversion")

record_from_ddvalue(d) == IF d = 1 THEN "a" ELSE "b"

relation_name_from_id(id) ==
  IF id \in RelIds THEN [ok |-> TRUE, val |-> NameOf(id), err |-> ""]
  ELSE [ok |-> FALSE, val |-> "", err |-> "unknown relation"]

relation_deserializer(id) ==
  IF id \in RelIds THEN Ok(id) ELSE Err("bad deserializing relation")

\* ---------------------------------------------------- batches (d3log::batch)
\* A batch body is a sequence of triples: <<name, record, weight>> in Record
\* form, <<relation id, value, weight>> in Value form.
Weights == {-1, 0, 1, 2}
RecWeights == {-1, 1}
ValueEntries == {<<p[1], p[2], w>> : p \in Pairs, w \in Weights}
RecordEntries == AllNames \X Records \X RecWeights
SeqsUpTo(S, n) == UNION {[1..k -> S] : k \in 0..n}
Batch(kind, body) == [kind |-> kind, body |-> body]
ValueBatches(n) == {Batch("Value", b) : b \in SeqsUpTo(ValueEntries, n)}
RecordBatches(n) == {Batch("Record", b) : b \in SeqsUpTo(RecordEntries, n)}
SeqBatches == ValueBatches(MaxBatchLen) \cup RecordBatches(MaxBatchLen)
ConcBatches ==
  {Batch("Value", <<e>>) : e \in {x \in ValueEntries : x[3] = 1}}
    \cup {Batch("Record", <<e>>) : e \in {x \in RecordEntries : x[3] = 1}}

VsOk(vs) == [ok |-> TRUE, vs |-> vs, err |-> ""]
VsErr(msg) == [ok |-> FALSE, vs |-> <<>>, err |-> msg]

\* ValueSet::from: a Value body is taken as it is; a Record body is converted
\* fact by fact with ddvalue_from_record and fails on the first bad fact.
ValueSetFrom(b) ==
  IF b.kind = "Value" THEN VsOk(b.body)
  ELSE LET conv(i) == ddvalue_from_record(b.body[i][1], b.body[i][2])
           bad == {i \in DOMAIN b.body : ~conv(i).ok}
       IN IF bad = {}
          THEN VsOk([i \in DOMAIN b.body |->
                      <<RelIdOf(b.body[i][1]), conv(i).val, b.body[i][3]>>])
          ELSE VsErr(conv(CHOOSE i \in bad : \A j \in bad : i <= j).err)

\* Batch::serialize of a Value body: the portable form names the relation and
\* carries the record of every value.
Serialize(vs) ==
  LET bad == {i \in DOMAIN vs : ~relation_name_from_id(vs[i][1]).ok}
  IN IF bad = {}
     THEN VsOk([i \in DOMAIN vs |->
                 <<relation_name_from_id(vs[i][1]).val,
                   record_from_ddvalue(vs[i][2]), vs[i][3]>>])
     ELSE VsErr("serialize")

\* Batch::deserialize: every fact is decoded with its relation's deserializer.
Deserialize(wire) ==
  LET idOf(i) == id_from_relation_name(wire[i][1])
      des(i) == IF idOf(i).ok THEN relation_deserializer(idOf(i).val)
                ELSE idOf(i)
      val(i) == IF des(i).ok THEN relval_from_record(des(i).val, wire[i][2])
                ELSE des(i)
      bad == {i \in DOMAIN wire : ~val(i).ok}
  IN IF bad = {}
     THEN VsOk([i \in DOMAIN wire |-> <<idOf(i).val, val(i).val, wire[i][3]>>])
     ELSE VsErr("deserialize")

\* ------------------------------------------ engine updates (program::Update)
Insert(relid, v) == [kind |-> "Insert", relid |-> relid, v |-> v]
DeleteValue(relid, v) == [kind |-> "DeleteValue", relid |-> relid, v |-> v]
\* The signed multiplicity one update stands for.
UpdWeight(u) == IF u.kind = "Insert" THEN 1 ELSE -1

\* ValueSet::from_delta_map: the delta map is ordered by relation, then value.
RECURSIVE SortedDelta(_)
SortedDelta(S) ==
  IF S = {} THEN <<>>
  ELSE LET m == CHOOSE x \in S : \A y \in S :
                  x[1] < y[1] \/ (x[1] = y[1] /\ x[2] <= y[2])
       IN <<m>> \o SortedDelta(S \ {m})
from_delta_map(delta) == Batch("Value", SortedDelta(delta))

\* ------------------------------------------------------ the engine (HDDlog)
\* committed: the facts of the committed state; inTxn: a transaction is open;
\* pending: the facts the open transaction inserts.
NewEngine == [committed |-> {}, inTxn |-> FALSE, pending |-> {}]
Outcome(ok, h, fault, delta) ==
  [ok |-> ok, h |-> h, fault |-> fault, delta |-> delta]
PendingAfter(h, upds) ==
  (h.pending \cup {<<upds[i].relid, upds[i].v>> :
                     i \in {j \in DOMAIN upds : upds[j].kind = "Insert"}})
    \ {<<upds[i].relid, upds[i].v>> :
         i \in {j \in DOMAIN upds : upds[j].kind = "DeleteValue"}}

\* The engine has one transactional context: a second start is refused.
transaction_start(h, mayFail) ==
  (IF h.inTxn THEN {Outcome(FALSE, h, FALSE, {})}
   ELSE {Outcome(TRUE, [h EXCEPT !.inTxn = TRUE], FALSE, {})})
  \cup (IF mayFail /\ ~h.inTxn THEN {Outcome(FALSE, h, TRUE, {})} ELSE {})

\* A failing apply_updates has applied some proper prefix of the updates.
apply_updates(h, upds, mayFail) ==
  (IF ~h.inTxn THEN {Outcome(FALSE, h, FALSE, {})}
   ELSE {Outcome(TRUE, [h EXCEPT !.pending = PendingAfter(h, upds)], FALSE, {})})
  \cup (IF mayFail /\ h.inTxn /\ Len(upds) > 0
        THEN {Outcome(FALSE,
                      [h EXCEPT !.pending = PendingAfter(h, SubSeq(upds, 1, k))],
                      TRUE, {}) : k \in 0..(Len(upds) - 1)}
        ELSE {})

\* Commit publishes the pending facts and reports the facts that are new.
transaction_commit_dump_changes(h, mayFail) ==
  (IF ~h.inTxn THEN {Outcome(FALSE, h, FALSE, {})}
   ELSE {Outcome(TRUE,
                 [committed |-> h.committed \cup h.pending,
                  inTxn |-> FALSE, pending |-> {}],
                 FALSE,
                 {<<p[1], p[2], 1>> : p \in h.pending \ h.committed})})
  \cup (IF mayFail /\ h.inTxn THEN {Outcome(FALSE, h, TRUE, {})} ELSE {})

\* d3log_localize_val: the engine's answer for one fact: an error, no
\* annotation (Ok with no node), or a destination node with the fact as it is
\* to be delivered there (possibly of another relation).
LocReply(ok, some, node, rel, v) ==
  [ok |-> ok, some |-> some, node |-> node, rel |-> rel, v |-> v]
d3log_localize_val(rel, v) ==
  {LocReply(FALSE, FALSE, 0, rel, v), LocReply(TRUE, FALSE, 0, rel, v)}
    \cup {LocReply(TRUE, TRUE, n, p[1], p[2]) : n \in Nodes, p \in Pairs}

\* D3::localize on the engine's answer: Option<(Node, RelId, DDValue)>.
None == [some |-> FALSE, node |-> 0, rel |-> 0, v |-> 0]
Some(n, r, v) == [some |-> TRUE, node |-> n, rel |-> r, v |-> v]
\* A match that takes every Ok answer for a destination.
localize_any_ok(reply) ==
  IF reply.ok THEN Some(reply.node, reply.rel, reply.v) ELSE None

localize(reply) ==
  IF reply.ok /\ reply.some THEN Some(reply.node, reply.rel, reply.v)
  ELSE None

\* ------------------------------------------- start-up inputs and parsing
\* The node identity override: the text of the environment variable "uuid".
Digits == {"0", "1", "2", "3", "4", "5", "6", "7", "8", "9"}
DigitVal(c) ==
  CASE c = "0" -> 0 [] c = "1" -> 1 [] c = "2" -> 2 [] c = "3" -> 3
    [] c = "4" -> 4 [] c = "5" -> 5 [] c = "6" -> 6 [] c = "7" -> 7
    [] c = "8" -> 8 [] c = "9" -> 9
RECURSIVE DecimalVal(_)
DecimalVal(ds) ==
  IF ds = <<>> THEN 0
  ELSE 10 * DecimalVal(SubSeq(ds, 1, Len(ds) - 1)) + DigitVal(ds[Len(ds)])
\* str::parse::<u128>: an optional "+", then one or more decimal digits. The
\* texts of the model are too short to overflow 128 bits.
ParseU128(text) ==
  LET ds == IF text # <<>> /\ text[1] = "+" THEN Tail(text) ELSE text
  IN IF ds # <<>> /\ \A i \in DOMAIN ds : ds[i] \in Digits
     THEN Ok(DecimalVal(ds))
     ELSE Err("invalid digit")
EnvTexts == {<<>>, <<"7">>, <<"4", "2">>, <<"0", "7">>, <<"+", "5">>,
             <<"-", "1">>, <<"x">>, <<"7", " ">>}
EnvVar(present, utf8, text) == [present |-> present, utf8 |-> utf8, text |-> text]
NoEnv == EnvVar(FALSE, TRUE, <<>>)
EnvVars == {NoEnv} \cup {EnvVar(TRUE, FALSE, <<>>)}
             \cup {EnvVar(TRUE, TRUE, x) : x \in EnvTexts}
RandomIds == {3, 11}

\* The ingestion file: "{" and "}" nest, "b" is content no batch decodes from.
FileChars == {"{", "}", "b"}
FileBodies == SeqsUpTo(FileChars, MaxFileLen)

\* JsonFramer::append on a fresh framer: the complete top-level values of the
\* bytes, in order; an incomplete tail stays in the framer's buffer; a closer
\* with nothing open is a framing error.
FrOk(vals) == [ok |-> TRUE, vals |-> vals]
FrErr == [ok |-> FALSE, vals |-> <<>>]
RECURSIVE Frame(_, _, _, _, _)
Frame(s, i, depth, start, acc) ==
  IF i > Len(s) THEN FrOk(acc)
  ELSE IF s[i] = "{"
       THEN Frame(s, i + 1, depth + 1, IF depth = 0 THEN i ELSE start, acc)
  ELSE IF s[i] = "}"
       THEN IF depth = 0 THEN FrErr
            ELSE IF depth = 1
                 THEN Frame(s, i + 1, 0, start, Append(acc, SubSeq(s, start, i)))
                 ELSE Frame(s, i + 1, depth - 1, start, acc)
  ELSE Frame(s, i + 1, depth, start, acc)
JsonFramerAppend(body) == Frame(body, 1, 0, 1, <<>>)

\* Batch::deserialize of one framed value: the batch it encodes, or an error.
JsonBatch(v) == [kind |-> "Record", size |-> Len(v)]
BatchDeserialize(v) ==
  IF \E i \in DOMAIN v : v[i] = "b"
  THEN [ok |-> FALSE, batch |-> JsonBatch(<<>>)]
  ELSE [ok |-> TRUE, batch |-> JsonBatch(v)]

\* ------------------------------------------------------------------- state
VARIABLES
  hddlog,   \* D3.hddlog: the engine handle
  slot,     \* D3.eval: the self-reference slot, "None" or "Self"
  pc,       \* per thread: where its call stands
  input,    \* per thread: the batch given to eval
  vb,       \* per thread: eval's value set
  upd,      \* per thread: eval's update vector
  handed,   \* per thread: the updates apply_updates was called with
  trace,    \* per thread: the engine steps of the call, <<step, ok>>
  result,   \* per thread: what eval returned
  pre,      \* per thread: the committed facts when the call was made
  lreply,   \* per thread: the engine's answer inside localize
  lres,     \* per thread: what localize returned
  faulted,  \* the engine has failed of its own accord in this run
  bpc,      \* start_d3log: where the start-up stands
  debug,    \* start_d3log's argument debug_broadcast
  inputfile,\* start_d3log's argument inputfile: "None", "Some" or "Missing"
  env,      \* the environment variable "uuid" as start_d3log read it
  uuid,     \* the node identity
  subs,     \* instance.broadcast: the subscribers, <<port, node filter>>
  body,     \* read_json_file: the text read from the file
  framed,   \* read_json_file: the values the framer returned
  idx,      \* read_json_file: the value the loop is at
  nDeser,   \* read_json_file: values deserialized so far
  port,     \* instance.eval_port: the batches sent to it, in order
  park,     \* start_d3log's thread in its final loop: running, parked, woken
  npc,      \* D3::new: where the construction stands
  self_uuid,\* D3.uuid: the identity the evaluator was built with
  slotWrites,\* how many times the self-reference slot was assigned
  clock,    \* the system clock, in milliseconds since the epoch
  lastOp,   \* the latest lookup, conversion, now or error call and its result
  errq      \* D3.error: the facts sent on the error port, in order

evalVars == <<hddlog, slot, pc, input, vb, upd, handed, trace, result, pre,
              lreply, lres, faulted>>
bootVars == <<bpc, debug, inputfile, env, uuid, subs, body, framed, idx,
              nDeser, port, park>>
d3Vars == <<npc, self_uuid, slotWrites>>
opVars == <<clock, lastOp, errq>>
vars == <<evalVars, bootVars, d3Vars, opVars>>

NoBatch == Batch("Value", <<>>)
NoResult == [ok |-> FALSE, out |-> NoBatch, err |-> "none"]
EvalOk(b) == [ok |-> TRUE, out |-> b, err |-> ""]
EvalErr(msg) == [ok |-> FALSE, out |-> NoBatch, err |-> msg]
NoReply == LocReply(FALSE, FALSE, 0, 0, 0)

\* No call has been made on the evaluator yet.
InitCalls ==
  /\ pc = [t \in Threads |-> "idle"]
  /\ input = [t \in Threads |-> NoBatch]
  /\ vb = [t \in Threads |-> <<>>]
  /\ upd = [t \in Threads |-> <<>>]
  /\ handed = [t \in Threads |-> <<>>]
  /\ trace = [t \in Threads |-> <<>>]
  /\ result = [t \in Threads |-> NoResult]
  /\ pre = [t \in Threads |-> {}]
  /\ lreply = [t \in Threads |-> NoReply]
  /\ lres = [t \in Threads |-> None]
  /\ faulted = FALSE

\* D3::new has returned: a fresh engine, and the self-reference slot filled
\* once before the handle was returned.
InitEval ==
  /\ hddlog = NewEngine
  /\ slot = "Self"
  /\ npc = "ready"
  /\ slotWrites = 1
  /\ InitCalls

\* Before D3::new is called there is no evaluator.
InitUnbuilt ==
  /\ hddlog = NewEngine
  /\ slot = "None"
  /\ npc = "none"
  /\ self_uuid = 0
  /\ slotWrites = 0
  /\ InitCalls

\* A call of a lookup, a conversion, now or error: its argument, what it
\* returned, and whether an eval call was in flight when it was made.
OpCall(op, arg, res, busy) == [op |-> op, arg |-> arg, res |-> res, busy |-> busy]

\* No such call has been made; the clock reads the epoch.
NoOp == OpCall("none", 0, Ok(0), FALSE)
InitQuiet ==
  /\ clock = 0
  /\ lastOp = NoOp
  /\ errq = <<>>

\* A caller enters eval with batch b.
Call(t, b) ==
  /\ pc[t] = "idle"
  /\ pc' = [pc EXCEPT ![t] = "convert"]
  /\ input' = [input EXCEPT ![t] = b]
  /\ pre' = [pre EXCEPT ![t] = hddlog.committed]
  /\ UNCHANGED <<hddlog, slot, vb, upd, handed, trace, result, lreply, lres,
                 faulted,
                 bootVars, d3Vars, opVars>>

\* eval, lines 101-116: read the slot, convert the input to a value set,
\* round-trip it through the wire form, and build one Insert per entry.
UpdatesOf(vs) == [i \in DOMAIN vs |-> Insert(vs[i][1], vs[i][2])]
\* An eval that takes the evaluator out of the slot instead of cloning it.
EvalConvertTake(t) ==
  /\ pc[t] = "convert"
  /\ LET c == ValueSetFrom(input[t])
         wire == Serialize(c.vs)
         back == IF wire.ok THEN Deserialize(wire.vs) ELSE wire
     IN IF slot # "Self" \/ (c.ok /\ ~back.ok)
        THEN /\ pc' = [pc EXCEPT ![t] = "panicked"]
             /\ UNCHANGED <<vb, upd, result>>
        ELSE IF ~c.ok
        THEN /\ pc' = [pc EXCEPT ![t] = "done"]
             /\ result' = [result EXCEPT ![t] = EvalErr(c.err)]
             /\ UNCHANGED <<vb, upd>>
        ELSE /\ pc' = [pc EXCEPT ![t] = "start"]
             /\ vb' = [vb EXCEPT ![t] = c.vs]
             /\ upd' = [upd EXCEPT ![t] = UpdatesOf(c.vs)]
             /\ UNCHANGED result
  /\ slot' = "None"
  /\ UNCHANGED <<hddlog, input, handed, trace, pre, lreply, lres,
                 faulted,
                 bootVars, d3Vars, opVars>>

EvalConvert(t) ==
  /\ pc[t] = "convert"
  /\ LET c == ValueSetFrom(input[t])
         wire == Serialize(c.vs)
         back == IF wire.ok THEN Deserialize(wire.vs) ELSE wire
     IN IF slot # "Self" \/ (c.ok /\ ~back.ok)
        THEN /\ pc' = [pc EXCEPT ![t] = "panicked"]
             /\ UNCHANGED <<vb, upd, result>>
        ELSE IF ~c.ok
        THEN /\ pc' = [pc EXCEPT ![t] = "done"]
             /\ result' = [result EXCEPT ![t] = EvalErr(c.err)]
             /\ UNCHANGED <<vb, upd>>
        ELSE /\ pc' = [pc EXCEPT ![t] = "start"]
             /\ vb' = [vb EXCEPT ![t] = c.vs]
             /\ upd' = [upd EXCEPT ![t] = UpdatesOf(c.vs)]
             /\ UNCHANGED result
  /\ UNCHANGED <<hddlog, slot, input, handed, trace, pre, lreply, lres,
                 faulted,
                 bootVars, d3Vars, opVars>>

\* eval, line 118: self.hddlog.transaction_start()?
EvalStart(t) ==
  /\ pc[t] = "start"
  /\ \E o \in transaction_start(hddlog, TRUE) :
       /\ hddlog' = o.h
       /\ faulted' = (faulted \/ o.fault)
       /\ trace' = [trace EXCEPT ![t] = Append(@, <<"start", o.ok>>)]
       /\ IF o.ok
          THEN pc' = [pc EXCEPT ![t] = "apply"] /\ UNCHANGED result
          ELSE /\ pc' = [pc EXCEPT ![t] = "done"]
               /\ result' = [result EXCEPT ![t] = EvalErr("transaction_start")]
  /\ UNCHANGED <<slot, input, vb, upd, handed, pre, lreply, lres,
                 bootVars, d3Vars, opVars>>

\* apply_updates with its error dropped: eval goes on to commit.
EvalApplyUnchecked(t) ==
  /\ pc[t] = "apply"
  /\ \E o \in apply_updates(hddlog, upd[t], TRUE) :
       /\ hddlog' = o.h
       /\ faulted' = (faulted \/ o.fault)
       /\ trace' = [trace EXCEPT ![t] = Append(@, <<"apply", o.ok>>)]
       /\ handed' = [handed EXCEPT ![t] = upd[t]]
       /\ pc' = [pc EXCEPT ![t] = "commit"]
       /\ UNCHANGED result
  /\ UNCHANGED <<slot, input, vb, upd, pre, lreply, lres, bootVars, d3Vars,
                 opVars>>

\* eval, line 119: self.hddlog.apply_updates(&mut upd.clone().drain(..))?
EvalApply(t) ==
  /\ pc[t] = "apply"
  /\ \E o \in apply_updates(hddlog, upd[t], TRUE) :
       /\ hddlog' = o.h
       /\ faulted' = (faulted \/ o.fault)
       /\ trace' = [trace EXCEPT ![t] = Append(@, <<"apply", o.ok>>)]
       /\ handed' = [handed EXCEPT ![t] = upd[t]]
       /\ IF o.ok
          THEN pc' = [pc EXCEPT ![t] = "commit"] /\ UNCHANGED result
          ELSE /\ pc' = [pc EXCEPT ![t] = "done"]
               /\ result' = [result EXCEPT ![t] = EvalErr("apply_updates")]
  /\ UNCHANGED <<slot, input, vb, upd, pre, lreply, lres,
                 bootVars, d3Vars, opVars>>

\* eval, lines 120-123: commit, and wrap the engine's delta as a batch.
EvalCommit(t) ==
  /\ pc[t] = "commit"
  /\ \E o \in transaction_commit_dump_changes(hddlog, TRUE) :
       /\ hddlog' = o.h
       /\ faulted' = (faulted \/ o.fault)
       /\ trace' = [trace EXCEPT ![t] = Append(@, <<"commit", o.ok>>)]
       /\ pc' = [pc EXCEPT ![t] = "done"]
       /\ result' = [result EXCEPT ![t] =
                       IF o.ok THEN EvalOk(from_delta_map(o.delta))
                       ELSE EvalErr("transaction_commit")]
  /\ UNCHANGED <<slot, input, vb, upd, handed, pre, lreply, lres,
                 bootVars, d3Vars, opVars>>

\* D3::localize, lines 134-140: one question to the engine, then the match.
Localize(t, rel, v) ==
  /\ pc[t] = "idle"
  /\ \E reply \in d3log_localize_val(rel, v) :
       /\ lreply' = [lreply EXCEPT ![t] = reply]
       /\ lres' = [lres EXCEPT ![t] = localize(reply)]
  /\ pc' = [pc EXCEPT ![t] = "localized"]
  /\ input' = [input EXCEPT ![t] = Batch("Value", <<<<rel, v, 1>>>>)]
  /\ UNCHANGED <<hddlog, slot, vb, upd, handed, trace, result, pre, faulted,
                 bootVars, d3Vars, opVars>>

\* The call returns to its caller: the locals of the call are gone.
Return(t) ==
  /\ pc[t] \in {"done", "localized"}
  /\ pc' = [pc EXCEPT ![t] = "idle"]
  /\ input' = [input EXCEPT ![t] = NoBatch]
  /\ vb' = [vb EXCEPT ![t] = <<>>]
  /\ upd' = [upd EXCEPT ![t] = <<>>]
  /\ handed' = [handed EXCEPT ![t] = <<>>]
  /\ trace' = [trace EXCEPT ![t] = <<>>]
  /\ result' = [result EXCEPT ![t] = NoResult]
  /\ pre' = [pre EXCEPT ![t] = {}]
  /\ lreply' = [lreply EXCEPT ![t] = NoReply]
  /\ lres' = [lres EXCEPT ![t] = None]
  /\ UNCHANGED <<hddlog, slot, faulted,
                 bootVars, d3Vars, opVars>>

\* ------------------------------------------------------------------ D3::new
\* Line 58-59: HDDlog::run_with_config(config, false)?
D3NewRun ==
  /\ npc = "new"
  /\ \/ npc' = "alloc" /\ hddlog' = NewEngine
     \/ npc' = "failed" /\ UNCHANGED hddlog
  /\ UNCHANGED <<slot, pc, input, vb, upd, handed, trace, result, pre, lreply,
                 lres, faulted, self_uuid, slotWrites, bootVars, opVars>>

\* Instance::new hands the identity it was given to the evaluator
\* constructor it was given.
InstanceNewId(u) == u

\* A constructor that draws the identity itself.
D3NewAllocRandom ==
  /\ npc = "alloc"
  /\ npc' = "fill"
  /\ self_uuid' \in RandomIds
  /\ slot' = "None"
  /\ UNCHANGED <<hddlog, pc, input, vb, upd, handed, trace, result, pre,
                 lreply, lres, faulted, slotWrites, bootVars, opVars>>

\* Lines 60-65: the D3 is allocated with the identity it was given and an
\* empty self-reference slot, Arc::new(Mutex::new(None)).
D3NewAlloc ==
  /\ npc = "alloc"
  /\ npc' = "fill"
  /\ self_uuid' = InstanceNewId(uuid)
  /\ slot' = "None"
  /\ UNCHANGED <<hddlog, pc, input, vb, upd, handed, trace, result, pre,
                 lreply, lres, faulted, slotWrites, bootVars, opVars>>

\* Line 66: *ad.eval.lock().expect("lock") = Some(ad.clone())
D3NewFill ==
  /\ npc = "fill"
  /\ npc' = "return"
  /\ slot' = "Self"
  /\ slotWrites' = slotWrites + 1
  /\ UNCHANGED <<hddlog, pc, input, vb, upd, handed, trace, result, pre,
                 lreply, lres, faulted, self_uuid, bootVars, opVars>>

\* Lines 67-70: the handle is returned with the initial output.
D3NewReturn ==
  /\ npc = "return"
  /\ npc' = "ready"
  /\ UNCHANGED <<evalVars, self_uuid, slotWrites, bootVars, opVars>>

\* ------------------------------------- lookups, conversions, now and error
\* D3::myself, lines 85-87.
myself == self_uuid

\* Each of these is one call on a handle that D3::new returned; lastOp keeps
\* the call and what it returned.
EvalInFlight ==
  \E t \in Threads : pc[t] \in {"convert", "start", "apply", "commit"}
OpMyself ==
  /\ npc = "ready"
  /\ lastOp' = OpCall("myself", 0, Ok(myself), EvalInFlight)
  /\ UNCHANGED <<evalVars, bootVars, d3Vars, clock, errq>>

OpIdFromRelationName ==
  /\ npc = "ready"
  /\ \E s \in AllNames :
       lastOp' = OpCall("id_from_relation_name", s, id_from_relation_name(s),
                        EvalInFlight)
  /\ UNCHANGED <<evalVars, bootVars, d3Vars, clock, errq>>

OpRelationNameFromId ==
  /\ npc = "ready"
  /\ \E id \in RelIds \cup {2} :
       lastOp' = OpCall("relation_name_from_id", id, relation_name_from_id(id),
                        EvalInFlight)
  /\ UNCHANGED <<evalVars, bootVars, d3Vars, clock, errq>>

OpDdvalueFromRecord ==
  /\ npc = "ready"
  /\ \E s \in AllNames, r \in Records :
       lastOp' = OpCall("ddvalue_from_record", <<s, r>>, ddvalue_from_record(s, r),
                        EvalInFlight)
  /\ UNCHANGED <<evalVars, bootVars, d3Vars, clock, errq>>

OpRecordFromDdvalue ==
  /\ npc = "ready"
  /\ \E d \in DDValues :
       lastOp' = OpCall("record_from_ddvalue", d, Ok(record_from_ddvalue(d)),
                        EvalInFlight)
  /\ UNCHANGED <<evalVars, bootVars, d3Vars, clock, errq>>

OpRelationDeserializer ==
  /\ npc = "ready"
  /\ \E id \in RelIds \cup {2} :
       lastOp' = OpCall("relation_deserializer", id, relation_deserializer(id),
                        EvalInFlight)
  /\ UNCHANGED <<evalVars, bootVars, d3Vars, clock, errq>>

\* The system clock is not under the program's control: an administrator or
\* a time service may set it to any reading, a reading before the epoch (-1)
\* included.
ClockReadings == -1..MaxClock
ClockSet ==
  /\ \E c \in ClockReadings \ {clock} : clock' = c
  /\ UNCHANGED <<evalVars, bootVars, d3Vars, lastOp, errq>>

\* A timestamp read that opens a transaction on the engine.
OpNowInTransaction ==
  /\ npc = "ready"
  /\ clock >= 0
  /\ lastOp' = OpCall("now", 0, Ok(clock), EvalInFlight)
  /\ hddlog' = [hddlog EXCEPT !.inTxn = TRUE]
  /\ UNCHANGED <<slot, pc, input, vb, upd, handed, trace, result, pre, lreply,
                 lres, faulted, bootVars, d3Vars, clock, errq>>

\* D3::now, lines 145-150: the system time since the epoch in milliseconds;
\* a reading before the epoch is the panic of expect("Time went backwards").
OpNow ==
  /\ npc = "ready"
  /\ IF clock >= 0
     THEN lastOp' = OpCall("now", 0, Ok(clock), EvalInFlight)
     ELSE lastOp' = OpCall("now", 0, Err("panic: Time went backwards"),
                          EvalInFlight)
  /\ UNCHANGED <<evalVars, bootVars, d3Vars, clock, errq>>

\* D3::error, lines 90-96: the fact! built from the arguments and self.uuid.
ErrorArgs == {<<"t1", 1, "f1", "g1">>, <<"t2", 2, "f2", "g2">>}
ErrorFact(text, line, instance, filename, functionname) ==
  [rel |-> "d3_application::Error", text |-> text, line |-> line,
   instance |-> instance, filename |-> filename,
   functionname |-> functionname]

\* An error report that puts the file name where the text belongs.
OpErrorSwapped ==
  /\ npc = "ready"
  /\ Len(errq) < MaxErrors
  /\ \E a \in ErrorArgs :
       /\ errq' = Append(errq, ErrorFact(a[3], a[2], self_uuid, a[1], a[4]))
       /\ lastOp' = OpCall("error", a, Ok(0), EvalInFlight)
  /\ UNCHANGED <<evalVars, bootVars, d3Vars, clock>>

\* D3::error, lines 89-97: one fact sent on the error port, nothing returned.
OpError ==
  /\ npc = "ready"
  /\ Len(errq) < MaxErrors
  /\ \E a \in ErrorArgs :
       /\ errq' = Append(errq, ErrorFact(a[1], a[2], self_uuid, a[3], a[4]))
       /\ lastOp' = OpCall("error", a, Ok(0), EvalInFlight)
  /\ UNCHANGED <<evalVars, bootVars, d3Vars, clock>>

\* ------------------------------------------------------------ start_d3log
\* Stands for u128::MAX, the node filter that matches every node.
Wildcard == -1

\* The process enters start_d3log with its two arguments.
InitBoot ==
  /\ bpc = "uuid"
  /\ debug \in BOOLEAN
  /\ inputfile \in {"None", "Some", "Missing"}
  /\ env = NoEnv
  /\ uuid = 0
  /\ subs = {}
  /\ body = <<>>
  /\ framed = <<>>
  /\ idx = 1
  /\ nDeser = 0
  /\ port = <<>>
  /\ park = "running"

\* A node in service: started without debug broadcast and without a file.
InitServing ==
  /\ bpc = "serving"
  /\ debug = FALSE
  /\ inputfile = "None"
  /\ env = NoEnv
  /\ uuid \in {3}
  /\ subs = {}
  /\ body = <<>>
  /\ framed = <<>>
  /\ idx = 1
  /\ nDeser = 0
  /\ port = <<>>
  /\ park = "running"

\* Lines 205-214: the identity from the environment, or a random one.
BootUuid ==
  /\ bpc = "uuid"
  /\ \E e \in EnvVars :
       /\ env' = e
       /\ IF ~e.present
          THEN /\ uuid' \in RandomIds
               /\ bpc' = "instance"
          ELSE IF e.utf8 /\ ParseU128(e.text).ok
          THEN /\ uuid' = ParseU128(e.text).val
               /\ bpc' = "instance"
          ELSE /\ bpc' = "panicked"
               /\ UNCHANGED uuid
  /\ UNCHANGED <<evalVars, d3Vars, opVars, park,
                 debug, inputfile, subs, body, framed, idx, nDeser,
                 port>>

\* Lines 219-220: Runtime::new()?, whose error is returned to the caller, then
\* Instance::new(rt, d, uuid), which calls the closure d of lines 216-217 and
\* so D3::new.
BootInstance ==
  /\ bpc = "instance"
  /\ \/ bpc' = "returned" /\ UNCHANGED npc
     \/ bpc' = "new" /\ npc' = "new"
  /\ UNCHANGED <<evalVars, self_uuid, slotWrites, opVars, park,
                 debug, inputfile, env, uuid, subs, body, framed,
                 idx, nDeser, port>>

\* Line 220: Instance::new(..)? returns; its error, D3::new's included, is
\* returned to the caller.
BootInstanceDone ==
  /\ bpc = "new"
  /\ npc \in {"ready", "failed"}
  /\ IF npc = "failed" THEN bpc' = "returned"
     ELSE bpc' \in {"subscribe", "returned"}
  /\ UNCHANGED <<evalVars, d3Vars, opVars, park,
                 debug, inputfile, env, uuid, subs, body, framed,
                 idx, nDeser, port>>

\* Lines 222-229: the debug subscription.
BootSubscribe ==
  /\ bpc = "subscribe"
  /\ subs' = IF debug THEN subs \cup {<<"JsonDebugPort", Wildcard>>} ELSE subs
  /\ bpc' = IF inputfile = "None" THEN "serving" ELSE "read"
  /\ UNCHANGED <<evalVars, d3Vars, opVars, park,
                 debug, inputfile, env, uuid, body, framed, idx,
                 nDeser, port>>

\* read_json_file, line 45: the whole file is read; a failure is start_d3log's
\* panic (lines 235-236).
BootRead ==
  /\ bpc = "read"
  /\ IF inputfile = "Missing"
     THEN bpc' = "panicked" /\ UNCHANGED body
     ELSE bpc' = "frame" /\ body' \in FileBodies
  /\ UNCHANGED <<evalVars, d3Vars, opVars, park,
                 debug, inputfile, env, uuid, subs, framed, idx,
                 nDeser, port>>

\* A framing step that, on a framing error, keeps the values of the longest
\* prefix of the text that frames.
BootFrameLenient ==
  /\ bpc = "frame"
  /\ LET good == {n \in 0..Len(body) : Frame(SubSeq(body, 1, n), 1, 0, 1, <<>>).ok}
         most == CHOOSE n \in good : \A m \in good : m <= n
     IN /\ bpc' = "deser"
        /\ framed' = Frame(SubSeq(body, 1, most), 1, 0, 1, <<>>).vals
  /\ UNCHANGED <<evalVars, d3Vars, opVars, park,
                 debug, inputfile, env, uuid, subs, body, idx,
                 nDeser, port>>

\* read_json_file, lines 46-47: the whole text is framed at once.
BootFrame ==
  /\ bpc = "frame"
  /\ LET f == JsonFramerAppend(body)
     IN IF f.ok
        THEN bpc' = "deser" /\ framed' = f.vals
        ELSE bpc' = "panicked" /\ UNCHANGED framed
  /\ UNCHANGED <<evalVars, d3Vars, opVars, park,
                 debug, inputfile, env, uuid, subs, body, idx,
                 nDeser, port>>

\* A loop that passes over a value that does not deserialize.
BootDeserSkipping ==
  /\ bpc = "deser"
  /\ IF idx > Len(framed)
     THEN bpc' = "serving" /\ UNCHANGED <<nDeser, idx>>
     ELSE IF BatchDeserialize(framed[idx]).ok
     THEN bpc' = "cb" /\ nDeser' = nDeser + 1 /\ UNCHANGED idx
     ELSE bpc' = "deser" /\ idx' = idx + 1 /\ UNCHANGED nDeser
  /\ UNCHANGED <<evalVars, d3Vars, opVars, park,
                 debug, inputfile, env, uuid, subs, body, framed,
                 port>>

\* read_json_file, line 48 (and the loop's end, line 51, back in start_d3log).
BootDeser ==
  /\ bpc = "deser"
  /\ IF idx > Len(framed)
     THEN bpc' = "serving" /\ UNCHANGED nDeser
     ELSE IF BatchDeserialize(framed[idx]).ok
     THEN bpc' = "cb" /\ nDeser' = nDeser + 1
     ELSE bpc' = "panicked" /\ UNCHANGED nDeser
  /\ UNCHANGED <<evalVars, d3Vars, opVars, park,
                 debug, inputfile, env, uuid, subs, body, framed,
                 idx, port>>

\* A callback that puts the batch at the head of the port's queue.
BootCbAtHead ==
  /\ bpc = "cb"
  /\ port' = <<BatchDeserialize(framed[idx]).batch>> \o port
  /\ idx' = idx + 1
  /\ bpc' = "deser"
  /\ UNCHANGED <<evalVars, d3Vars, opVars, park,
                 debug, inputfile, env, uuid, subs, body, framed,
                 nDeser>>

\* read_json_file, line 49, with the callback of lines 232-234: the batch is
\* sent to the ingestion port.
BootCb ==
  /\ bpc = "cb"
  /\ port' = Append(port, BatchDeserialize(framed[idx]).batch)
  /\ idx' = idx + 1
  /\ bpc' = "deser"
  /\ UNCHANGED <<evalVars, d3Vars, opVars, park,
                 debug, inputfile, env, uuid, subs, body, framed,
                 nDeser>>

\* While the process lives, the threads of the instance may ask the
\* evaluator for the node's identity.
BootMyself == bpc \notin {"panicked", "returned"} /\ OpMyself

\* Lines 243-245: loop { std::thread::park(); }
BootPark ==
  /\ bpc = "serving"
  /\ park \in {"running", "woken"}
  /\ park' = "parked"
  /\ UNCHANGED <<evalVars, d3Vars, opVars,
                 bpc, debug, inputfile, env, uuid, subs, body, framed,
                 idx, nDeser, port>>

\* A wake-up that leaves the loop and returns to the caller.
BootWakeReturns ==
  /\ bpc = "serving"
  /\ park = "parked"
  /\ park' = "woken"
  /\ bpc' = "returned"
  /\ UNCHANGED <<evalVars, d3Vars, opVars,
                 debug, inputfile, env, uuid, subs, body, framed,
                 idx, nDeser, port>>

\* park() returns, by an unpark or spuriously; the loop goes round.
BootWake ==
  /\ bpc = "serving"
  /\ park = "parked"
  /\ park' = "woken"
  /\ UNCHANGED <<evalVars, d3Vars, opVars,
                 bpc, debug, inputfile, env, uuid, subs, body, framed,
                 idx, nDeser, port>>

NextBoot ==
  \/ BootUuid
  \/ BootInstance
  \/ D3NewRun
  \/ D3NewAlloc
  \/ D3NewFill
  \/ D3NewReturn
  \/ BootInstanceDone
  \/ BootMyself
  \/ BootPark
  \/ BootWake
  \/ BootSubscribe
  \/ BootRead
  \/ BootFrame
  \/ BootDeser
  \/ BootCb
InitStart == InitUnbuilt /\ InitBoot /\ InitQuiet
SpecBoot == InitStart /\ [][NextBoot]_vars

\* -------------------------------------------- one caller, call after call
SeqCall == pc[1] = "idle" /\ \E b \in SeqBatches : Call(1, b)
SeqLocalize == pc[1] = "idle" /\ \E p \in Pairs : Localize(1, p[1], p[2])
SeqConvert == EvalConvert(1)
SeqStart == EvalStart(1)
SeqApply == EvalApply(1)
SeqCommit == EvalCommit(1)
SeqReturn == Return(1)

Init == InitEval /\ InitServing /\ InitQuiet /\ self_uuid = uuid
Next ==
  \/ SeqCall
  \/ SeqLocalize
  \/ SeqConvert
  \/ SeqStart
  \/ SeqApply
  \/ SeqCommit
  \/ SeqReturn
Spec == Init /\ [][Next]_vars

\* ------------------------------------- several callers, one eval call each
ConcCall ==
  \E t \in Threads : pc[t] = "idle" /\ \E b \in ConcBatches : Call(t, b)
ConcConvert == \E t \in Threads : EvalConvert(t)
ConcStart == \E t \in Threads : EvalStart(t)
ConcApply == \E t \in Threads : EvalApply(t)
ConcCommit == \E t \in Threads : EvalCommit(t)

NextConc ==
  \/ ConcCall
  \/ ConcConvert
  \/ ConcStart
  \/ ConcApply
  \/ ConcCommit
SpecConc == Init /\ [][NextConc]_vars

\* ------------- the evaluator's life: D3::new, then calls from any thread
\* Instance::new is about to build the evaluator of a node whose identity
\* was drawn at random.
InitInstance ==
  /\ bpc = "instance"
  /\ debug = FALSE
  /\ inputfile = "None"
  /\ env = NoEnv
  /\ uuid \in {3}
  /\ subs = {}
  /\ body = <<>>
  /\ framed = <<>>
  /\ idx = 1
  /\ nDeser = 0
  /\ port = <<>>
  /\ park = "running"

\* The batches of the one caller of eval: a fact of relation R in either
\* form, and a record that does not convert.
OpsBatches ==
  {Batch("Value", <<<<0, 1, 1>>>>), Batch("Record", <<<<"R", "a", 1>>>>),
   Batch("Record", <<<<"X", "a", 1>>>>)}
OpsCall ==
  npc = "ready" /\ pc[1] = "idle" /\ \E b \in OpsBatches : Call(1, b)
OpsConvert == EvalConvert(1)
OpsStart == EvalStart(1)
OpsApply == EvalApply(1)
OpsCommit == EvalCommit(1)
OpsReturn == Return(1)

NextOps ==
  \/ BootInstance
  \/ D3NewRun
  \/ D3NewAlloc
  \/ D3NewFill
  \/ D3NewReturn
  \/ OpsCall
  \/ OpsConvert
  \/ OpsStart
  \/ OpsApply
  \/ OpsCommit
  \/ OpsReturn
  \/ OpMyself
  \/ OpIdFromRelationName
  \/ OpRelationNameFromId
  \/ OpDdvalueFromRecord
  \/ OpRecordFromDdvalue
  \/ OpRelationDeserializer
  \/ OpNow
  \/ OpError
  \/ ClockSet
InitOps == InitUnbuilt /\ InitInstance /\ InitQuiet
SpecOps == InitOps /\ [][NextOps]_vars

\* ================================================================ claims
PairOf(e) == <<e[1], e[2]>>
PairsIn(vs) == {PairOf(vs[i]) : i \in DOMAIN vs}
RECURSIVE NetWeight(_, _)
NetWeight(vs, p) ==
  IF vs = <<>> THEN 0
  ELSE (IF PairOf(Head(vs)) = p THEN Head(vs)[3] ELSE 0) + NetWeight(Tail(vs), p)
Applied(t) == \E i \in DOMAIN trace[t] : trace[t][i][1] = "apply"
HandedFor(t, p) ==
  {i \in DOMAIN handed[t] : <<handed[t][i].relid, handed[t][i].v>> = p}
FailedSteps(t) == {i \in DOMAIN trace[t] : ~trace[t][i][2]}

\* C1: one call of eval hands the engine at most one update per distinct
\* (relation, value) pair of its batch, exactly one when the pair's weights do
\* not cancel, and that update carries the sum of the pair's weights.
C1_OneNetUpdatePerPair ==
  \A t \in Threads : Applied(t) =>
    \A p \in Pairs :
      /\ Cardinality(HandedFor(t, p)) <= 1
      /\ NetWeight(vb[t], p) # 0 => HandedFor(t, p) # {}
      /\ \A i \in HandedFor(t, p) :
           UpdWeight(handed[t][i]) = NetWeight(vb[t], p)

\* C6: a pair whose weights in the batch sum to zero is never among the
\* updates eval passes to the engine.
C6_NoZeroWeightUpdate ==
  \A t \in Threads : Applied(t) =>
    \A p \in PairsIn(vb[t]) : NetWeight(vb[t], p) = 0 => HandedFor(t, p) = {}

\* C7: a pair of negative net weight is applied as retractions, as many as
\* the magnitude of the net weight; a pair of positive net weight is applied
\* as insertions.
C7_NegativeAsRetraction ==
  \A t \in Threads : Applied(t) =>
    \A p \in PairsIn(vb[t]) :
      /\ NetWeight(vb[t], p) < 0 =>
           /\ \A i \in HandedFor(t, p) : handed[t][i].kind = "DeleteValue"
           /\ Cardinality(HandedFor(t, p)) = -NetWeight(vb[t], p)
      /\ NetWeight(vb[t], p) > 0 =>
           /\ \A i \in HandedFor(t, p) : handed[t][i].kind = "Insert"
           /\ HandedFor(t, p) # {}

\* C2: while one eval is between its transaction_start and its commit, no
\* other eval executes transaction_start, apply_updates or the commit.
InTransaction(t) == pc[t] \in {"apply", "commit"}
EngineStepBy(t) == Len(trace'[t]) > Len(trace[t])
C2_NoOverlappingPhases ==
  [][\A t \in Threads : EngineStepBy(t) =>
       \A u \in Threads \ {t} : ~InTransaction(u)]_vars

\* C3: when the concurrent eval calls have all returned and the engine has
\* not failed of its own accord, the results and the committed facts are
\* those of running the calls one after the other in some order.
SoleOutcome(S) == CHOOSE o \in S : ~o.fault
SeqEval(b, h) ==
  LET c == ValueSetFrom(b)
      o1 == SoleOutcome(transaction_start(h, FALSE))
      o2 == SoleOutcome(apply_updates(o1.h, UpdatesOf(c.vs), FALSE))
      o3 == SoleOutcome(transaction_commit_dump_changes(o2.h, FALSE))
  IN IF ~c.ok THEN [res |-> EvalErr(c.err), h |-> h]
     ELSE IF ~o1.ok THEN [res |-> EvalErr("transaction_start"), h |-> o1.h]
     ELSE IF ~o2.ok THEN [res |-> EvalErr("apply_updates"), h |-> o2.h]
     ELSE IF ~o3.ok THEN [res |-> EvalErr("transaction_commit"), h |-> o3.h]
     ELSE [res |-> EvalOk(from_delta_map(o3.delta)), h |-> o3.h]
Orders == {f \in [Threads -> Threads] : \A a, b \in Threads : a # b => f[a] # f[b]}
RECURSIVE RunInOrder(_, _, _, _)
RunInOrder(ord, k, h, res) ==
  IF k > NumThreads THEN [h |-> h, res |-> res]
  ELSE LET r == SeqEval(input[ord[k]], h)
       IN RunInOrder(ord, k + 1, r.h, [res EXCEPT ![ord[k]] = r.res])
C3_SomeSequentialOrder ==
  ((\A t \in Threads : pc[t] = "done") /\ ~faulted) =>
    \E ord \in Orders :
      LET r == RunInOrder(ord, 1, NewEngine, [t \in Threads |-> NoResult])
      IN /\ r.h.committed = hddlog.committed
         /\ \A t \in Threads : r.res[t] = result[t]

\* C4: an eval whose transaction_start, apply_updates or commit fails returns
\* an error, makes no further engine step, and leaves the committed facts as
\* they were before the call; an eval that returns a result has committed the
\* facts of its whole batch.
C4_AllOrNothing ==
  \A t \in Threads :
    /\ FailedSteps(t) # {} =>
         /\ pc[t] = "done"
         /\ ~result[t].ok
         /\ FailedSteps(t) = {Len(trace[t])}
         /\ hddlog.committed = pre[t]
    /\ \A i, j \in DOMAIN trace[t] : trace[t][i][1] = trace[t][j][1] => i = j
    /\ (pc[t] = "done" /\ result[t].ok) =>
         hddlog.committed = pre[t] \cup PairsIn(vb[t])
C4_Witness ==
  /\ pc[1] = "done"
  /\ ~result[1].ok
  /\ trace[1] = <<<<"start", TRUE>>, <<"apply", FALSE>>>>
  /\ hddlog.pending # {}
  /\ hddlog.committed = pre[1]
  /\ pre[1] # {}

\* C5: an eval of a Record-form batch holding a record that does not convert
\* returns an error, and makes no engine step for that batch: no transaction
\* is started and no fact of the batch, before or after the bad record, is
\* applied or committed.
HasBadRecord(b) ==
  /\ b.kind = "Record"
  /\ \E i \in DOMAIN b.body :
       ~(b.body[i][1] \in RelNames
           /\ RecordFits(RelIdOf(b.body[i][1]), b.body[i][2]))
C5_BadRecordRejectsBatch ==
  \A t \in Threads :
    (pc[t] \in {"convert", "start", "apply", "commit", "done", "panicked"}
       /\ HasBadRecord(input[t])) =>
      /\ pc[t] \in {"convert", "done"}
      /\ pc[t] = "done" => ~result[t].ok
      /\ trace[t] = <<>>
      /\ handed[t] = <<>>
      /\ hddlog.committed = pre[t]
C5_Witness ==
  /\ pc[1] = "done"
  /\ ~result[1].ok
  /\ input[1].kind = "Record"
  /\ Len(input[1].body) = 2
  /\ input[1].body[1] = <<"R", "a", 1>>
  /\ input[1].body[2] = <<"S", "b", 1>>
  /\ ~hddlog.inTxn

\* C8: localize returns no destination when the engine reports no
\* annotation for the fact, returns exactly the engine's (node, relation,
\* value) when the engine reports a destination, and returns nothing else.
C8_LocalizeContract ==
  \A t \in Threads : pc[t] = "localized" =>
    /\ (lreply[t].ok /\ ~lreply[t].some) => lres[t] = None
    /\ (lreply[t].ok /\ lreply[t].some) =>
         lres[t] = Some(lreply[t].node, lreply[t].rel, lreply[t].v)
    /\ lres[t].some => (lreply[t].ok /\ lreply[t].some)
C8_Witness ==
  /\ pc[1] = "localized"
  /\ lres[1] = Some(9, 1, 1)
  /\ input[1].body[1] = <<0, 2, 1>>

FileValues == JsonFramerAppend(body).vals
InOrder ==
  /\ Len(port) <= Len(framed)
  /\ \A i \in 1..Len(port) : port[i] = JsonBatch(FileValues[i])
  /\ (bpc = "serving" /\ inputfile = "Some") => Len(port) = Len(FileValues)

\* C9 (as stated): the batches reach the ingestion port in file order, one per
\* value, and the batch of value i is delivered before value i+1 is read,
\* that is before it is framed and before it is deserialized.
C9_DeliveredBeforeNextRead ==
  /\ InOrder
  /\ Len(framed) <= Len(port) + 1
  /\ nDeser <= Len(port) + 1

\* C9 (amended): the batches reach the ingestion port in file order, one per
\* value, and the batch of value i is delivered before value i+1 is
\* deserialized; the values are all framed before the first delivery.
C9_DeliveredBeforeNextDeserialized ==
  /\ InOrder
  /\ nDeser <= Len(port) + 1
  /\ port # <<>> => framed = FileValues
C9_Witness ==
  /\ bpc = "cb"
  /\ Len(framed) = 2
  /\ framed[1] # framed[2]
  /\ Len(port) = 1
  /\ nDeser = 2

\* C10: an identity override that is present but does not parse, an
\* ingestion file that cannot be read, and an initial batch that fails
\* framing or deserialization each end the process: start-up goes no
\* further, and Serving is not reached.
EnvBad == env.present /\ ~(env.utf8 /\ ParseU128(env.text).ok)
FramingBad == inputfile = "Some" /\ ~JsonFramerAppend(body).ok
DeserBad(n) ==
  /\ inputfile = "Some"
  /\ JsonFramerAppend(body).ok
  /\ \E i \in 1..n : i <= Len(FileValues) /\ ~BatchDeserialize(FileValues[i]).ok
C10_FatalBootstrap ==
  /\ EnvBad => bpc = "panicked"
  /\ (inputfile = "Missing"
        /\ bpc \notin {"uuid", "instance", "new", "subscribe", "read"})
       => bpc \in {"panicked", "returned"}
  /\ bpc \in {"deser", "cb", "serving"} => ~FramingBad
  /\ bpc \in {"deser", "cb"} => ~DeserBad(idx - 1)
  /\ bpc = "serving" => ~(EnvBad \/ inputfile = "Missing" \/ FramingBad
                            \/ DeserBad(Len(FileValues)))
  /\ bpc = "panicked" => ~ENABLED NextBoot
C10_Witness ==
  /\ bpc = "panicked"
  /\ Len(port) = 1
  /\ Len(framed) = 2
  /\ ~BatchDeserialize(framed[2]).ok

\* C11: once start_d3log is in Serving it stays there: it does not return,
\* does not go back to an earlier stage, and neither parking nor a wake-up
\* makes it subscribe, read, send or change anything else of its own.
C11_ServingIsPermanent ==
  [][bpc = "serving" =>
       /\ bpc' = "serving"
       /\ UNCHANGED <<debug, inputfile, env, uuid, subs, body, framed, idx,
                      nDeser, port>>]_vars
C11_Witness ==
  /\ bpc = "serving"
  /\ park = "woken"
  /\ Len(port) = 2

\* C12 (as stated): started with the debug broadcast flag, the broadcast has
\* both DebugPort and JsonDebugPort subscribed with the wildcard filter once
\* Serving is reached; started without it, neither is subscribed.
DebugSubscribers == {<<"DebugPort", Wildcard>>, <<"JsonDebugPort", Wildcard>>}
C12_BothDebugPortsSubscribed ==
  bpc = "serving" =>
    IF debug THEN DebugSubscribers \subseteq subs
    ELSE subs \cap DebugSubscribers = {}

\* C13: the self-reference slot is assigned once, inside D3::new, before the
\* handle is returned; no call on a returned handle assigns it; every eval
\* that reads the slot finds the evaluator in it.
C13_SlotWrittenOnce ==
  /\ [](/\ slotWrites <= 1
        /\ npc = "ready" => (slot = "Self" /\ slotWrites = 1)
        /\ \A t \in Threads :
             /\ pc[t] = "convert" => slot = "Self"
             /\ pc[t] # "panicked")
  /\ [][npc = "ready" => UNCHANGED <<slot, slotWrites>>]_vars
C13_Witness ==
  /\ slotWrites = 1
  /\ pc[1] = "convert"
  /\ hddlog.committed # {}
  /\ lastOp.op = "error"

\* C14 (as stated): a now() call never returns a timestamp smaller than the
\* one the now() call before it returned.
C14_NowNeverGoesBack ==
  [][(lastOp.op = "now" /\ lastOp.res.ok /\ lastOp'.op = "now"
        /\ lastOp'.res.ok)
       => lastOp'.res.val >= lastOp.res.val]_vars

\* C15: a call of error sends exactly one Error fact on the error port, made
\* of the node's identity and the four arguments of the call; it returns
\* nothing, and the engine, its transaction and every eval call are as they
\* were.
C15_ErrorSendsOneFact ==
  [][errq' # errq =>
       /\ lastOp'.op = "error"
       /\ lastOp'.res = Ok(0)
       /\ LET a == lastOp'.arg
          IN errq' = Append(errq, ErrorFact(a[1], a[2], myself, a[3], a[4]))
       /\ UNCHANGED <<evalVars, d3Vars>>]_vars
C15_Witness ==
  /\ Len(errq) = 1
  /\ errq[1].text = "t2" /\ errq[1].line = 2 /\ errq[1].instance = 3
  /\ errq[1].filename = "f2" /\ errq[1].functionname = "g2"
  /\ lastOp.op = "error" /\ lastOp.busy
  /\ hddlog.inTxn

\* C16: when the environment gave an identity that parses, every myself()
\* call of the run returns the parsed value, whatever was called before.
EnvIdentity == ParseU128(env.text)
C16_MyselfIsEnvIdentity ==
  (npc = "ready" /\ env.present /\ env.utf8 /\ EnvIdentity.ok) =>
    /\ myself = EnvIdentity.val
    /\ lastOp.op = "myself" => lastOp.res = Ok(EnvIdentity.val)
C16_Witness ==
  /\ bpc = "serving"
  /\ env = EnvVar(TRUE, TRUE, <<"4", "2">>)
  /\ lastOp.op = "myself"
  /\ lastOp.res = Ok(42)
  /\ port # <<>>

\* C17 (as stated): whenever no eval call is in flight the engine has no open
\* transaction.
NoEvalInFlight == \A t \in Threads : pc[t] \in {"idle", "localized"}
C17_NoTransactionLeftOpen == NoEvalInFlight => ~hddlog.inTxn

\* C18: a call of myself, id_from_relation_name, relation_name_from_id,
\* ddvalue_from_record, record_from_ddvalue, relation_deserializer or now
\* leaves the engine's committed facts, its transaction and the
\* self-reference slot as they were, whether it returns a value or an error
\* and whether or not an eval call is in flight.
LookupOps == {"myself", "id_from_relation_name", "relation_name_from_id",
              "ddvalue_from_record", "record_from_ddvalue",
              "relation_deserializer", "now"}
C18_LookupsLeaveEngineAlone ==
  [][(lastOp' # lastOp /\ lastOp'.op \in LookupOps) =>
       UNCHANGED <<hddlog, slot>>]_vars
C18_Witness ==
  /\ lastOp.op = "now"
  /\ ~lastOp.res.ok
  /\ lastOp.busy
  /\ pc[1] = "commit"
  /\ hddlog.pending # {}

\* C19 (as stated): a fact for which the engine's localization call failed
\* never gets the result that a deliberately unaddressed fact gets.
C19_FailureDistinctFromUnaddressed ==
  \A t \in Threads :
    (pc[t] = "localized" /\ ~lreply[t].ok) =>
      lres[t] # localize(LocReply(TRUE, FALSE, 0, lreply[t].rel, lreply[t].v))

\* C20: read_json_file passes one batch per deserialized value to its
\* callback, in file order; a framing failure means no callback at all; a
\* deserialization failure at the k-th value means the first k-1 batches were
\* passed and none after; it returns Ok only when every framed value was
\* delivered.
FirstBadValue ==
  CHOOSE k \in 1..(Len(FileValues) + 1) :
    /\ k <= Len(FileValues) => ~BatchDeserialize(FileValues[k]).ok
    /\ \A i \in 1..(k - 1) : BatchDeserialize(FileValues[i]).ok
C20_CallbackUntilFirstFailure ==
  /\ FramingBad => port = <<>>
  /\ (inputfile = "Some" /\ ~FramingBad) =>
       /\ Len(port) <= FirstBadValue - 1
       /\ \A i \in 1..Len(port) : port[i] = BatchDeserialize(FileValues[i]).batch
       /\ (bpc = "panicked" /\ framed # <<>>) =>
            /\ FirstBadValue <= Len(FileValues)
            /\ Len(port) = FirstBadValue - 1
       /\ bpc = "serving" =>
            /\ FirstBadValue = Len(FileValues) + 1
            /\ Len(port) = Len(FileValues)
  /\ inputfile # "Some" => port = <<>>
C20_Witness ==
  /\ bpc = "panicked"
  /\ framed = <<<<"{", "}">>, <<"{", "b", "}">>>>
  /\ Len(body) > 5
  /\ Len(port) = 1

====
